---- MODULE Spec2Model ----
(***************************************************************************)
(* Model of the Switchboard session client (SwitchboardClient,             *)
(* sdk/python/switchboard_sdk/client.py): connection lifecycle, receive    *)
(* loop, system-message handling and reconnection with backoff.            *)
(*                                                                         *)
(* The client runs on one asyncio event loop.  A coroutine runs without    *)
(* interruption between two suspension points, so every action below is    *)
(* the code executed by one caller or one task from one suspension point   *)
(* to the next.  The suspension points modelled are: the socket read of    *)
(* the receive loop, the grace delay of the session_ended handling, the    *)
(* backoff sleep of the reconnect task and the socket open of the          *)
(* reconnect task.  Handlers run to completion inside the step that        *)
(* invokes them.                                                           *)
(***************************************************************************)
EXTENDS Integers, Sequences, FiniteSets, TLC

(* ----------------------------- bounds ---------------------------------- *)
\* tasks of the client that are running at the same time
MaxTasks == 2
\* socket objects open (or still referenced) at the same time
MaxSocks == 2
\* frames counted on one connection
MaxMsgs == 2
\* handler registrations over all keys
MaxHandlers == 1
\* handler registrations over all keys where handlers may fail
MaxRegistered == 2
\* the max_reconnect_attempts the client is constructed with in Spec
MaxAttempts == 2

(* ------------------------ program constants ---------------------------- *)
\* the defaults of the constructor
DEFAULT_MAX_RECONNECT_ATTEMPTS == 5
reconnect_delay == 1
\* the close codes _establish_connection tells apart
CLOSE_FORBIDDEN == 403
CLOSE_NOT_FOUND == 404
\* the close codes of the model: normal closure (1000), abnormal closure
\* (1006) and the two above
CloseCodes == {1000, 1006, CLOSE_FORBIDDEN, CLOSE_NOT_FOUND}
\* websockets raises ConnectionClosedOK for 1000 and 1001 and
\* ConnectionClosedError for every other code
ClosedOK(code) == code \in {1000, 1001}

(* ----------------------------- values ---------------------------------- *)
\* Python's None, and a key that a JSON object does not hold
None == "None"
Absent == "<absent>"

Truthy(x) == x \notin {None, "", Absent}

MessageType ==
    {"instructor_inbox", "inbox_response", "request", "request_response",
     "analytics", "instructor_broadcast", "system"}

\* the types handlers get registered for in the model
HandledTypes == {"request", "system"}
Handlers == {"h1"}
\* a handler that raises an exception whenever it is called
FailingHandlers == {"hbad"}
\* a message handler that awaits client.disconnect()
DisconnectingHandlers == {"hdisc"}
\* a message handler that suspends before it returns
SlowHandlers == {"hslow"}
SessionIds == {"s1"}
Roles == {None, "student"}

\* JSON content values: a mapping (dict = TRUE) with the keys the client
\* reads, or a value that is not a mapping (a string, a list, null);
\* NoContent stands for a frame without the key "content"
Mapping(event, reason, message) ==
    [has |-> TRUE, dict |-> TRUE, event |-> event, reason |-> reason, message |-> message]
NotMapping ==
    [has |-> TRUE, dict |-> FALSE, event |-> Absent, reason |-> Absent, message |-> Absent]
NoContent ==
    [has |-> FALSE, dict |-> FALSE, event |-> Absent, reason |-> Absent, message |-> Absent]

\* a raw frame: json = FALSE is a text that json.loads rejects
Frame(type, context, content) ==
    [json |-> TRUE, type |-> type, context |-> context, content |-> content]
BadJson == [json |-> FALSE, type |-> Absent, context |-> Absent, content |-> NoContent]

\* the frames a server sends in Spec
Frames ==
    { BadJson,
      Frame(Absent, "general", Mapping(Absent, Absent, Absent)),
      Frame("bogus", "general", Mapping(Absent, Absent, Absent)),
      Frame("request", Absent, Mapping(Absent, Absent, Absent)),
      Frame("system", "general", Mapping("session_ended", "timeout", Absent)) }

NoMsg == [type |-> None, context |-> None, content |-> NotMapping]

Error(kind, message, detail) == [kind |-> kind, message |-> message, detail |-> detail]

(* ------------------------------ state ---------------------------------- *)
VARIABLES
    role,                 \* self.role
    max_reconnect_attempts, \* self.max_reconnect_attempts
    websocket,            \* self.websocket: a socket id, 0 is None
    current_session_id,   \* self.current_session_id
    connected,            \* self.connected
    message_count,        \* self.message_count
    reconnect_attempts,   \* self.reconnect_attempts
    message_handlers,     \* self.message_handlers: type -> list of handlers
    connection_handlers,  \* self.connection_handlers
    error_handlers,       \* self.error_handlers
    receive_task,         \* self._receive_task: a task id, 0 is None, DoneTask a finished task
    reconnect_task,       \* self._reconnect_task: likewise
    shutdown,             \* self._shutdown
    tasks,                \* the asyncio tasks the client created
    socks,                \* the sockets the client opened
    established_by,       \* history: what opened the latest connection, connect or reconnect
    decoded,              \* history: the frames the receive loop of the latest connection decoded
    op,                   \* the step taken last: name, task, input, error raised to the caller
    trace                 \* what the step taken last did, in order

vars ==
    <<role, max_reconnect_attempts, websocket, current_session_id, connected, message_count,
      reconnect_attempts, message_handlers, connection_handlers, error_handlers,
      receive_task, reconnect_task, shutdown, tasks, socks, established_by, decoded,
      op, trace>>

TaskIds == 1..MaxTasks
SockIds == 1..MaxSocks

\* a task: what it runs (kind), where it is suspended (st), and for a receive
\* loop its socket, the message it holds during the grace delay or while a
\* handler is awaited, the position of that handler in its list, and the
\* frames the socket has received for the loop while it was not reading;
\* for a reconnect task its delay
FreeTask ==
    [kind |-> "free", st |-> "done", sock |-> 0, delay |-> 0, msg |-> NoMsg, pos |-> 0,
     queued |-> <<>>]
RecvTask(s) == [FreeTask EXCEPT !.kind = "recv", !.st = "reading", !.sock = s]
TimerTask(delay) == [FreeTask EXCEPT !.kind = "timer", !.st = "sleeping", !.delay = delay]
FreeSock == [st |-> "free", code |-> 0]

\* what a reference to a task becomes when the task has finished
DoneTask == 0 - 1

\* a task that has not finished (Task.done() is false)
Live(ts, t) == t > 0 /\ ts[t].kind # "free" /\ ts[t].st # "done"


(* ------------------- the client as a value ------------------------------ *)
\* The fields a step reads and writes, gathered in one record so that the
\* methods below compose as the calls of the code do.  must_cancel is the
\* cancellation requested on the task that is running the step and not yet
\* delivered; exc is the exception propagating out of the call; full says
\* that the step needs more tasks or sockets than the bounds allow; task is
\* the task that runs the step (0: the caller) and swallow what close() of
\* the installed websockets release does with a cancellation.
World ==
    [websocket |-> websocket, current_session_id |-> current_session_id,
     connected |-> connected, message_count |-> message_count,
     reconnect_attempts |-> reconnect_attempts, receive_task |-> receive_task,
     reconnect_task |-> reconnect_task, shutdown |-> shutdown, tasks |-> tasks,
     socks |-> socks, established_by |-> established_by, decoded |-> decoded,
     trace |-> <<>>, must_cancel |-> FALSE, exc |-> None,
     full |-> FALSE]

Emit(w, e) == [w EXCEPT !.trace = Append(@, e)]
Raise(w, e) == [w EXCEPT !.exc = e]

\* Objects that play no part any more leave the model: a finished task
\* (a reference to it becomes DoneTask), a closed socket that neither
\* self.websocket nor a running receive loop holds.
KeepSock(w, s) ==
    \/ w.socks[s].st = "open"
    \/ w.socks[s].st = "closed"
        /\ \/ s = w.websocket
           \/ \E t \in TaskIds : Live(w.tasks, t) /\ w.tasks[t].kind = "recv" /\ w.tasks[t].sock = s

TaskRef(w, t) == IF t > 0 /\ ~Live(w.tasks, t) THEN DoneTask ELSE t

Release(w) ==
    [w EXCEPT !.tasks = [t \in TaskIds |-> IF Live(w.tasks, t) THEN w.tasks[t] ELSE FreeTask],
              !.socks = [s \in SockIds |-> IF KeepSock(w, s) THEN w.socks[s] ELSE FreeSock],
              !.receive_task = TaskRef(w, w.receive_task),
              !.reconnect_task = TaskRef(w, w.reconnect_task),
              !.established_by = IF Live(w.tasks, w.receive_task) THEN @ ELSE None,
              !.decoded = IF Live(w.tasks, w.receive_task) THEN @ ELSE 0]

FreeTaskIds(w) == {t \in TaskIds : w.tasks[t].kind = "free"}
FreeSockIds(w) == {s \in SockIds : w.socks[s].st = "free"}
Lowest(S) == CHOOSE x \in S : \A y \in S : x <= y

(* ------------------------- notification -------------------------------- *)
\* Each handler of the list is awaited in registration order; an exception
\* of a handler is caught and logged.
\* The first event of each is the call itself, the others are the handlers
\* it awaits, each with the exception it raised.
HandlerRaises(h) == IF h \in FailingHandlers THEN "Exception" ELSE None

\* what a handler finds in the client when it is called
Seen(w) ==
    [connected |-> w.connected,
     socket_open |-> w.websocket # 0 /\ w.socks[w.websocket].st = "open",
     receiving |-> Live(w.tasks, w.receive_task),
     message_count |-> w.message_count,
     reconnect_attempts |-> w.reconnect_attempts]

notify_connection_handlers(w, b) ==
    [w EXCEPT !.trace = @ \o <<[ev |-> "notify_connection", connected |-> b]>>
        \o [i \in 1..Len(connection_handlers) |->
               [ev |-> "connection_handler", h |-> connection_handlers[i], connected |-> b,
                raised |-> HandlerRaises(connection_handlers[i]), seen |-> Seen(w)]]]

\* a notification that reports the failure of an error handler to the
\* error handlers, once
notify_error_handlers_reporting(w, e) ==
    LET calls(x) == <<[ev |-> "notify_error", error |-> x]>>
            \o [i \in 1..Len(error_handlers) |->
                   [ev |-> "error_handler", h |-> error_handlers[i], error |-> x,
                    raised |-> HandlerRaises(error_handlers[i])]]
    IN  [w EXCEPT !.trace = @ \o calls(e)
            \o IF \E i \in 1..Len(error_handlers) : HandlerRaises(error_handlers[i]) # None
               THEN calls(Error("SwitchboardError", "Error in error handler", ""))
               ELSE <<>>]

notify_error_handlers(w, e) ==
    [w EXCEPT !.trace = @ \o <<[ev |-> "notify_error", error |-> e]>>
        \o [i \in 1..Len(error_handlers) |->
               [ev |-> "error_handler", h |-> error_handlers[i], error |-> e,
                raised |-> HandlerRaises(error_handlers[i])]]]

(* --------------------------- disconnect -------------------------------- *)
\* Task.cancel(), called by the task `self` (0: a caller that is not one of
\* the client's tasks).  A task cancelled by somebody else gets
\* CancelledError at the suspension point it waits at, which none of the
\* client's except clauses catches: it ends before it runs again.  A task
\* that cancels itself goes on running until its next suspension.
cancel(w, t, self) ==
    IF t = self
    THEN [w EXCEPT !.must_cancel = TRUE]
    ELSE [w EXCEPT !.tasks[t].st = "done"]

\* websocket.close().  Closing an open socket suspends the caller while the
\* closing handshake completes; a caller with a cancellation pending gets
\* it there, and whether close() lets the CancelledError through or
\* swallows it depends on the websockets release (`swallow`).  Closing a
\* socket that is closed already returns without suspending.
close(w, s, swallow) ==
    IF w.socks[s].st # "open"
    THEN w
    ELSE LET c == Emit([w EXCEPT !.socks[s] = [st |-> "closed", code |-> 1000]],
                       [ev |-> "close", sock |-> s])
         IN  IF ~c.must_cancel THEN c
             ELSE IF swallow THEN [c EXCEPT !.must_cancel = FALSE]
             ELSE [c EXCEPT !.must_cancel = FALSE, !.exc = "CancelledError"]

disconnect(w, self, swallow) ==
    LET w1 == [w EXCEPT !.shutdown = TRUE]
        w2 == IF Live(w1.tasks, w1.reconnect_task)
              THEN cancel(w1, w1.reconnect_task, self) ELSE w1
        w3 == IF Live(w2.tasks, w2.receive_task)
              THEN cancel(w2, w2.receive_task, self) ELSE w2
        w4 == IF w3.websocket # 0 THEN close(w3, w3.websocket, swallow) ELSE w3
    IN  IF w4.exc # None
        THEN w4
        ELSE notify_connection_handlers(
                 [w4 EXCEPT !.connected = FALSE, !.current_session_id = None], FALSE)

\* a dispatch that gives up at the first handler that raises
notify_message_handlers_until_failure(w, m) ==
    LET hs == IF m.type \in DOMAIN message_handlers THEN message_handlers[m.type] ELSE <<>>
        bad == {i \in 1..Len(hs) : HandlerRaises(hs[i]) # None}
        n == IF bad = {} THEN Len(hs) ELSE Lowest(bad)
    IN  [w EXCEPT !.trace = @ \o <<[ev |-> "notify_message", m |-> m]>>
              \o [i \in 1..n |-> [ev |-> "message_handler", h |-> hs[i], m |-> m,
                                 raised |-> HandlerRaises(hs[i])]]]

\* Handlers that only return or raise leave one event each.
notify_message_handlers(w, m) ==
    LET hs == IF m.type \in DOMAIN message_handlers THEN message_handlers[m.type] ELSE <<>>
    IN  [w EXCEPT !.trace = @ \o <<[ev |-> "notify_message", m |-> m]>>
              \o [i \in 1..Len(hs) |-> [ev |-> "message_handler", h |-> hs[i], m |-> m,
                                      raised |-> HandlerRaises(hs[i])]]]

\* One handler of the list, called on task t.  A handler that awaits
\* disconnect() runs it on that task; a CancelledError that comes out of
\* it is no Exception: it leaves the handler and the loop over the
\* handlers.
run_message_handler(w, h, m, t, swallow) ==
    LET d == disconnect([w EXCEPT !.trace = <<>>], t, swallow)
        e == [ev |-> "message_handler", h |-> h, m |-> m,
              raised |-> IF h \in DisconnectingHandlers THEN d.exc ELSE HandlerRaises(h)]
    IN  IF w.exc # None THEN w
        ELSE IF h \in DisconnectingHandlers
        THEN [d EXCEPT !.trace = Append(w.trace, e) \o d.trace]
        ELSE Emit(w, e)

\* _notify_message_handlers with a handler that awaits disconnect() in the
\* list: the handlers one after the other
run_message_handlers(w, m, t, swallow) ==
    LET hs == IF m.type \in DOMAIN message_handlers THEN message_handlers[m.type] ELSE <<>>
        after[i \in 0..Len(hs)] ==
            IF i = 0 THEN Emit(w, [ev |-> "notify_message", m |-> m])
            ELSE run_message_handler(after[i - 1], hs[i], m, t, swallow)
    IN  after[Len(hs)]

(* -------------------------- reconnection ------------------------------- *)
\* a delay growing by the base at each attempt, in place of doubling
ReconnectDelay_linear(attempts) == reconnect_delay * attempts

ReconnectDelay(attempts) == reconnect_delay * 2 ^ (attempts - 1)

\* a policy that gives up one attempt later
attempt_reconnection_one_more(w) ==
    IF w.shutdown \/ w.reconnect_attempts > max_reconnect_attempts
    THEN notify_error_handlers(w,
             Error("ReconnectionFailedError", "Failed to reconnect after attempts", ""))
    ELSE LET r == Release([w EXCEPT !.reconnect_task = 0])
             n == w.reconnect_attempts + 1
             t == Lowest(FreeTaskIds(r))
         IN  IF FreeTaskIds(r) = {}
             THEN [w EXCEPT !.full = TRUE]
             ELSE Emit([r EXCEPT !.reconnect_attempts = n,
                                 !.tasks[t] = TimerTask(ReconnectDelay(n)),
                                 !.reconnect_task = t],
                       [ev |-> "schedule", task |-> t, delay |-> ReconnectDelay(n)])

attempt_reconnection(w) ==
    IF w.shutdown \/ w.reconnect_attempts >= max_reconnect_attempts
    THEN notify_error_handlers(w,
             Error("ReconnectionFailedError", "Failed to reconnect after attempts", ""))
    ELSE LET r == Release([w EXCEPT !.reconnect_task = 0])
             n == w.reconnect_attempts + 1
             t == Lowest(FreeTaskIds(r))
         IN  IF FreeTaskIds(r) = {}
             THEN [w EXCEPT !.full = TRUE]
             ELSE Emit([r EXCEPT !.reconnect_attempts = n,
                                 !.tasks[t] = TimerTask(ReconnectDelay(n)),
                                 !.reconnect_task = t],
                       [ev |-> "schedule", task |-> t, delay |-> ReconnectDelay(n)])

(* ------------------------ opening the socket --------------------------- *)
\* what `await websockets.connect(ws_url)` can do: return a socket, raise
\* ConnectionClosedError with one of the two codes the code tells apart, or
\* fail in a way that ends as ConnectionError (another close code, any
\* other exception)
OpenOutcomes ==
    {[kind |-> "ok", code |-> 0], [kind |-> "error", code |-> 0]}
    \cup {[kind |-> "closed", code |-> c] : c \in {CLOSE_FORBIDDEN, CLOSE_NOT_FOUND}}

OpenError(outcome) ==
    IF outcome.kind = "closed" /\ outcome.code = CLOSE_FORBIDDEN THEN "AuthenticationError"
    ELSE IF outcome.kind = "closed" /\ outcome.code = CLOSE_NOT_FOUND THEN "SessionNotFoundError"
    ELSE "ConnectionError"

\* an open that tells the connection handlers before it sets connected
open_socket_notifying_first(w, outcome, via) ==
    IF outcome.kind # "ok"
    THEN Raise(w, OpenError(outcome))
    ELSE LET r == Release([w EXCEPT !.websocket = 0, !.receive_task = 0])
             s == Lowest(FreeSockIds(r))
             t == Lowest(FreeTaskIds(r))
         IN  IF FreeTaskIds(r) = {} \/ FreeSockIds(r) = {}
             THEN [w EXCEPT !.full = TRUE]
             ELSE [notify_connection_handlers(
                       [r EXCEPT !.websocket = s,
                                 !.socks[s] = [st |-> "open", code |-> 0]], TRUE)
                      EXCEPT !.connected = TRUE,
                             !.reconnect_attempts = 0,
                             !.message_count = 0,
                             !.tasks[t] = RecvTask(s),
                             !.established_by = via,
                             !.decoded = 0,
                             !.receive_task = t]

\* the try block of _establish_connection, once websockets.connect is over
open_socket(w, outcome, via) ==
    IF outcome.kind # "ok"
    THEN Raise(w, OpenError(outcome))
    ELSE LET r == Release([w EXCEPT !.websocket = 0, !.receive_task = 0])
             s == Lowest(FreeSockIds(r))
             t == Lowest(FreeTaskIds(r))
         IN  IF FreeTaskIds(r) = {} \/ FreeSockIds(r) = {}
             THEN [w EXCEPT !.full = TRUE]
             ELSE notify_connection_handlers(
                      [r EXCEPT !.websocket = s,
                                !.socks[s] = [st |-> "open", code |-> 0],
                                !.connected = TRUE,
                                !.reconnect_attempts = 0,
                                !.message_count = 0,
                                !.tasks[t] = RecvTask(s),
                                !.established_by = via,
                                !.decoded = 0,
                                !.receive_task = t],
                      TRUE)

establish_connection(w, outcome) ==
    IF ~Truthy(w.current_session_id)
    THEN Raise(w, "SwitchboardError")
    ELSE open_socket(w, outcome, "connect")

(* ---------------------- from a step to the state ----------------------- *)
Commit(w0, o) ==
    \E w \in {w0} : \E r \in {Release(w)} :
        /\ ~w.full
        /\ websocket' = r.websocket
        /\ current_session_id' = r.current_session_id
        /\ connected' = r.connected
        /\ message_count' = r.message_count
        /\ reconnect_attempts' = r.reconnect_attempts
        /\ receive_task' = r.receive_task
        /\ reconnect_task' = r.reconnect_task
        /\ shutdown' = r.shutdown
        /\ tasks' = r.tasks
        /\ socks' = r.socks
        /\ established_by' = r.established_by
        /\ decoded' = r.decoded
        /\ op' = [o EXCEPT !.task = TaskRef(w, o.task)]
        /\ trace' = r.trace

Op(name, task, input, raised) ==
    [name |-> name, task |-> task, input |-> input, raised |-> raised]


NoInput == [none |-> TRUE]

(* ------------------------------ Init ----------------------------------- *)
\* the client after __init__(role, user_id, max_reconnect_attempts = limit)
Constructed(limit) ==
    /\ role \in Roles
    /\ max_reconnect_attempts = limit
    /\ websocket = 0
    /\ current_session_id = None
    /\ connected = FALSE
    /\ message_count = 0
    /\ reconnect_attempts = 0
    /\ message_handlers = <<>>
    /\ connection_handlers = <<>>
    /\ error_handlers = <<>>
    /\ receive_task = 0
    /\ reconnect_task = 0
    /\ shutdown = FALSE
    /\ tasks = [t \in TaskIds |-> FreeTask]
    /\ socks = [s \in SockIds |-> FreeSock]
    /\ established_by = None
    /\ decoded = 0
    /\ op = Op("init", 0, NoInput, None)
    /\ trace = <<>>

Init == Constructed(MaxAttempts)

(* ----------------------- handler registration -------------------------- *)
Registered ==
    Len(connection_handlers) + Len(error_handlers)
    + (IF "request" \in DOMAIN message_handlers THEN Len(message_handlers["request"]) ELSE 0)
    + (IF "system" \in DOMAIN message_handlers THEN Len(message_handlers["system"]) ELSE 0)
    + (IF "analytics" \in DOMAIN message_handlers THEN Len(message_handlers["analytics"]) ELSE 0)

ClientUnchanged ==
    UNCHANGED <<role, max_reconnect_attempts, websocket, current_session_id, connected, message_count,
                reconnect_attempts, receive_task, reconnect_task, shutdown, tasks, socks,
                established_by, decoded>>

\* a registration that puts the new handler in front of the others
on_message_prepending(message_type, handler) ==
    /\ message_handlers' =
           IF message_type \in DOMAIN message_handlers
           THEN [message_handlers EXCEPT ![message_type] = <<handler>> \o @]
           ELSE (message_type :> <<handler>>) @@ message_handlers
    /\ UNCHANGED <<connection_handlers, error_handlers>>
    /\ ClientUnchanged
    /\ op' = Op("on_message", 0, [message_type |-> message_type, handler |-> handler], None)
    /\ trace' = <<>>

on_message(message_type, handler) ==
    /\ message_handlers' =
           IF message_type \in DOMAIN message_handlers
           THEN [message_handlers EXCEPT ![message_type] = Append(@, handler)]
           ELSE (message_type :> <<handler>>) @@ message_handlers
    /\ UNCHANGED <<connection_handlers, error_handlers>>
    /\ ClientUnchanged
    /\ op' = Op("on_message", 0, [message_type |-> message_type, handler |-> handler], None)
    /\ trace' = <<>>

on_connection(handler) ==
    /\ connection_handlers' = Append(connection_handlers, handler)
    /\ UNCHANGED <<message_handlers, error_handlers>>
    /\ ClientUnchanged
    /\ op' = Op("on_connection", 0, [handler |-> handler], None)
    /\ trace' = <<>>

on_error(handler) ==
    /\ error_handlers' = Append(error_handlers, handler)
    /\ UNCHANGED <<message_handlers, connection_handlers>>
    /\ ClientUnchanged
    /\ op' = Op("on_error", 0, [handler |-> handler], None)
    /\ trace' = <<>>

HandlersUnchanged == UNCHANGED <<role, max_reconnect_attempts, message_handlers, connection_handlers, error_handlers>>

(* ------------------------- the caller's calls -------------------------- *)
connect(w, session_id, outcome) ==
    IF role = None
    THEN Raise(w, "SwitchboardError")
    ELSE establish_connection(
             [w EXCEPT !.current_session_id = session_id, !.shutdown = FALSE], outcome)

Connect(session_id, outcome) ==
    LET w == connect(World, session_id, outcome)
    IN  /\ Commit(w, Op("connect", 0, [session_id |-> session_id, outcome |-> outcome], w.exc))
        /\ HandlersUnchanged

Disconnect ==
    /\ Commit(disconnect(World, 0, FALSE), Op("disconnect", 0, NoInput, None))
    /\ HandlersUnchanged

(* --------------------------- the server -------------------------------- *)
\* the peer closes the socket, or the connection is lost (1006)
ServerClose(s, code) ==
    /\ socks[s].st = "open"
    /\ Commit([World EXCEPT !.socks[s] = [st |-> "closed", code |-> code]],
              Op("server_close", 0, [sock |-> s, code |-> code], None))
    /\ HandlersUnchanged


(* --------------------------- wire model -------------------------------- *)
\* Message.from_dict raises for a frame without type or content (KeyError)
\* and for a type outside MessageType (ValueError)
CanDecode(f) == f.json /\ f.type \in MessageType /\ f.content.has

\* a decoding that takes every empty context for a missing one
from_dict_defaulting(f) ==
    [type |-> f.type,
     context |-> IF ~Truthy(f.context) THEN "general" ELSE f.context,
     content |-> f.content]

from_dict(f) ==
    [type |-> f.type,
     context |-> IF f.context = Absent THEN "general" ELSE f.context,
     content |-> f.content]

(* ---------------------- system messages -------------------------------- *)
\* an event tag that prefers the context field to content.event
event_of_context_first(m) ==
    IF Truthy(m.context) THEN m.context
    ELSE IF m.content.dict /\ m.content.event # Absent THEN m.content.event
    ELSE None

event_of(m) ==
    IF m.content.dict /\ m.content.event # Absent THEN m.content.event
    ELSE IF Truthy(m.context) THEN m.context
    ELSE None

reason_of(m) ==
    IF m.content.dict /\ m.content.reason # Absent THEN m.content.reason
    ELSE "Unknown reason"

\* the error _handle_system_message hands to the error handlers after the
\* teardown of a session_ended message
SessionEndedError(m) == Error("SessionEndedError", "Session was ended", "")

\* a handling that reports every event it does not know as an error
handle_system_message_strict(w, t, m) ==
    IF event_of(m) = "session_ended"
    THEN [notify_message_handlers(w, m) EXCEPT !.tasks[t].st = "grace", !.tasks[t].msg = m]
    ELSE IF event_of(m) = "message_error" /\ ~m.content.dict
    THEN Raise(w, "AttributeError")
    ELSE notify_error_handlers(w,
             Error("SwitchboardError", "Server message error",
                   IF m.content.message # Absent THEN m.content.message
                   ELSE "Unknown message error"))

\* _handle_system_message up to its first suspension: the task ends up in
\* the grace delay (session_ended), or the call has returned, or it has
\* raised (exc)
handle_system_message(w, t, m) ==
    IF event_of(m) = "session_ended"
    THEN [notify_message_handlers(w, m) EXCEPT !.tasks[t].st = "grace", !.tasks[t].msg = m]
    ELSE IF event_of(m) = "message_error"
    THEN IF ~m.content.dict
         THEN Raise(w, "AttributeError")
         ELSE notify_error_handlers(w,
                  Error("SwitchboardError", "Server message error",
                        IF m.content.message # Absent THEN m.content.message
                        ELSE "Unknown message error"))
    ELSE w

\* the receive loop is back at the socket read; a cancellation that is
\* still pending is delivered there
next_read(w, t) ==
    IF w.must_cancel
    THEN [w EXCEPT !.tasks[t] = [@ EXCEPT !.st = "done"], !.must_cancel = FALSE]
    ELSE [w EXCEPT !.tasks[t] = [@ EXCEPT !.st = "reading", !.msg = NoMsg]]

\* the normal dispatch that follows _handle_system_message in the loop
dispatch(w, m) == notify_message_handlers(w, m)

\* a loop that reports the failure and ends
report_failure_and_stop(w, t, message) ==
    [notify_error_handlers([w EXCEPT !.exc = None], Error("SwitchboardError", message, ""))
        EXCEPT !.tasks[t] = [@ EXCEPT !.st = "done"]]

\* the two except clauses inside the loop: the failure goes to the error
\* handlers and the loop takes the next frame
report_failure(w, t, message) ==
    notify_error_handlers([w EXCEPT !.exc = None], Error("SwitchboardError", message, ""))

\* the task ends with the CancelledError that no except clause catches
cancelled(w, t) == [w EXCEPT !.tasks[t] = [@ EXCEPT !.st = "done"], !.must_cancel = FALSE]

\* one iteration of the loop of _receive_messages, up to the next
\* suspension: the grace delay or the socket read
receive_frame(w, t, f) ==
    IF ~f.json
    THEN report_failure(w, t, "Invalid message format")
    ELSE IF ~CanDecode(f)
    THEN report_failure(w, t, "Message processing failed")
    ELSE LET m == from_dict(f)
             w1 == [w EXCEPT !.message_count = @ + 1,
                             !.decoded = IF t = w.receive_task THEN @ + 1 ELSE @]
             w2 == IF m.type = "system" THEN handle_system_message(w1, t, m) ELSE w1
         IN  IF w2.exc # None
             THEN report_failure(w2, t, "Message processing failed")
             ELSE IF w2.tasks[t].st = "grace"
             THEN w2
             ELSE dispatch(w2, m)

RecvFrame(t, f) ==
    /\ tasks[t].kind = "recv" /\ tasks[t].st = "reading"
    /\ socks[tasks[t].sock].st = "open"
    /\ CanDecode(f) => message_count < MaxMsgs /\ decoded < MaxMsgs
    /\ Commit(receive_frame(World, t, f), Op("receive", t, [frame |-> f], None))
    /\ HandlersUnchanged

\* the frame has a handler that awaits disconnect()
HasDisconnecting(f) ==
    /\ CanDecode(f) /\ f.type # "system" /\ f.type \in DOMAIN message_handlers
    /\ \E i \in DOMAIN message_handlers[f.type] :
           message_handlers[f.type][i] \in DisconnectingHandlers

\* one iteration of the loop for such a frame.  The CancelledError of the
\* handler passes both except clauses of the loop and the two around it:
\* the task ends with it.  Otherwise the loop is back at the socket read.
receive_frame_disconnecting(w, t, f, swallow) ==
    LET m == from_dict(f)
        w1 == [w EXCEPT !.message_count = @ + 1,
                        !.decoded = IF t = w.receive_task THEN @ + 1 ELSE @]
        r == run_message_handlers(w1, m, t, swallow)
    IN  IF r.exc = "CancelledError" THEN cancelled(r, t) ELSE next_read(r, t)

RecvFrameDisconnecting(t, f, swallow) ==
    /\ tasks[t].kind = "recv" /\ tasks[t].st = "reading"
    /\ socks[tasks[t].sock].st = "open"
    /\ HasDisconnecting(f)
    /\ message_count < MaxMsgs /\ decoded < MaxMsgs
    /\ LET w == receive_frame_disconnecting(World, t, f, swallow)
       IN  Commit([w EXCEPT !.exc = None], Op("receive", t, [frame |-> f], w.exc))
    /\ HandlersUnchanged

\* _handle_system_message after the grace delay, and the loop after it
session_ended_teardown(w, t, swallow) ==
    LET m == w.tasks[t].msg
        w1 == disconnect([w EXCEPT !.shutdown = TRUE], t, swallow)
    IN  IF w1.exc # None
        THEN cancelled(w1, t)
        ELSE next_read(dispatch(notify_error_handlers(w1, SessionEndedError(m)), m), t)

SessionEndedTeardown(t, swallow) ==
    /\ tasks[t].kind = "recv" /\ tasks[t].st = "grace"
    /\ LET w == session_ended_teardown(World, t, swallow)
       IN  Commit([w EXCEPT !.exc = None],
                  Op("session_ended", t, [message |-> tasks[t].msg, sock |-> tasks[t].sock],
                     w.exc))
    /\ HandlersUnchanged

\* the socket read raises: `async for` ends silently on ConnectionClosedOK,
\* ConnectionClosedError reaches `except ConnectionClosed`
connection_closed(w, t) ==
    LET w1 == [w EXCEPT !.tasks[t] = [@ EXCEPT !.st = "done"]]
    IN  IF ClosedOK(w.socks[w.tasks[t].sock].code)
        THEN w1
        ELSE IF ~w1.shutdown
        THEN attempt_reconnection([w1 EXCEPT !.connected = FALSE])
        ELSE [w1 EXCEPT !.connected = FALSE]

RecvClosed(t) ==
    /\ tasks[t].kind = "recv" /\ tasks[t].st = "reading"
    /\ socks[tasks[t].sock].st = "closed"
    /\ Commit(connection_closed(World, t),
              Op("closed", t, [code |-> socks[tasks[t].sock].code], None))
    /\ HandlersUnchanged

(* ------------------------ the reconnect task --------------------------- *)
\* _delayed_reconnect when the sleep is over, up to websockets.connect
delayed_reconnect(w, t) ==
    IF w.shutdown
    THEN [w EXCEPT !.tasks[t] = [@ EXCEPT !.st = "done"]]
    ELSE IF ~Truthy(w.current_session_id)
    THEN attempt_reconnection([w EXCEPT !.tasks[t] = [@ EXCEPT !.st = "done"]])
    ELSE [w EXCEPT !.tasks[t] = [@ EXCEPT !.st = "connecting"]]

TimerFire(t) ==
    /\ tasks[t].kind = "timer" /\ tasks[t].st = "sleeping"
    /\ Commit(delayed_reconnect(World, t), Op("timer", t, [delay |-> tasks[t].delay], None))
    /\ HandlersUnchanged

\* _delayed_reconnect when websockets.connect is over
reconnect_result(w, t, outcome) ==
    LET w1 == open_socket([w EXCEPT !.tasks[t] = [@ EXCEPT !.st = "done"]], outcome, "reconnect")
    IN  IF w1.exc # None
        THEN attempt_reconnection([w1 EXCEPT !.exc = None])
        ELSE w1

TimerConnect(t, outcome) ==
    /\ tasks[t].kind = "timer" /\ tasks[t].st = "connecting"
    /\ Commit(reconnect_result(World, t, outcome),
              Op("reconnect", t, [outcome |-> outcome],
                 IF outcome.kind = "ok" THEN None ELSE OpenError(outcome)))
    /\ HandlersUnchanged

(* ------------------------------ Next ----------------------------------- *)
Next ==
    \/ \E y \in HandledTypes, h \in Handlers : Registered < MaxHandlers /\ on_message(y, h)
    \/ \E h \in Handlers : Registered < MaxHandlers /\ on_connection(h)
    \/ \E h \in Handlers : Registered < MaxHandlers /\ on_error(h)
    \/ \E sid \in SessionIds, o \in OpenOutcomes : Connect(sid, o)
    \/ Disconnect
    \/ \E s \in SockIds, c \in CloseCodes : ServerClose(s, c)
    \/ \E t \in TaskIds, f \in Frames : RecvFrame(t, f)
    \/ \E t \in TaskIds, b \in BOOLEAN : SessionEndedTeardown(t, b)
    \/ \E t \in TaskIds : RecvClosed(t)
    \/ \E t \in TaskIds : TimerFire(t)
    \/ \E t \in TaskIds, o \in OpenOutcomes : TimerConnect(t, o)

Spec == Init /\ [][Next]_vars

\* The client built with the default max_reconnect_attempts, a server that
\* drops and refuses connections, and no inbound frames: the reconnection
\* ladder in full length.
InitBackoff == Constructed(DEFAULT_MAX_RECONNECT_ATTEMPTS)

NextBackoff ==
    \/ \E h \in Handlers : Registered < MaxHandlers /\ on_error(h)
    \/ \E sid \in SessionIds, o \in OpenOutcomes : Connect(sid, o)
    \/ Disconnect
    \/ \E s \in SockIds, c \in CloseCodes : ServerClose(s, c)
    \/ \E t \in TaskIds : RecvClosed(t)
    \/ \E t \in TaskIds : TimerFire(t)
    \/ \E t \in TaskIds, o \in OpenOutcomes : TimerConnect(t, o)

SpecBackoff == InitBackoff /\ [][NextBackoff]_vars

\* Handlers that fail among handlers that do not, two registrations over
\* the keys, one session that is opened, receives, drops and is closed.
HandlerFrames ==
    {BadJson, Frame("request", "general", Mapping(Absent, Absent, Absent))}

NextHandlers ==
    \/ \E h \in Handlers \cup FailingHandlers :
           Registered < MaxRegistered /\ on_message("request", h)
    \/ \E h \in Handlers \cup FailingHandlers :
           Registered < MaxRegistered /\ on_connection(h)
    \/ \E h \in Handlers \cup FailingHandlers :
           Registered < MaxRegistered /\ on_error(h)
    \/ \E sid \in SessionIds : Connect(sid, [kind |-> "ok", code |-> 0])
    \/ Disconnect
    \/ \E s \in SockIds : ServerClose(s, 1006)
    \/ \E t \in TaskIds, f \in HandlerFrames : RecvFrame(t, f)
    \/ \E t \in TaskIds : RecvClosed(t)

SpecHandlers == Init /\ [][NextHandlers]_vars

\* A handler that awaits disconnect() among the handlers of the request
\* messages, a connection handler, one session that is opened and receives.
NextInHandler ==
    \/ \E h \in Handlers \cup DisconnectingHandlers :
           Registered < MaxRegistered /\ on_message("request", h)
    \/ \E h \in Handlers : Registered < MaxRegistered /\ on_connection(h)
    \/ \E sid \in SessionIds : Connect(sid, [kind |-> "ok", code |-> 0])
    \/ \E t \in TaskIds, f \in HandlerFrames : ~HasDisconnecting(f) /\ RecvFrame(t, f)
    \/ \E t \in TaskIds, f \in HandlerFrames, b \in BOOLEAN : RecvFrameDisconnecting(t, f, b)
    \/ \E t \in TaskIds : RecvClosed(t)

SpecInHandler == Init /\ [][NextInHandler]_vars

(* ------------------------------ sending -------------------------------- *)
\* Message.to_dict: the keys type, context and content, always present
to_dict(m) == Frame(m.type, m.context, [m.content EXCEPT !.has = TRUE])

\* the messages a caller sends in the model
SendMessages ==
    { [type |-> "request", context |-> "question", content |-> Mapping(Absent, Absent, Absent)],
      [type |-> "analytics", context |-> "", content |-> NotMapping] }
\* what websocket.send does on an open socket: it writes, or it raises
SendOutcomes == {"ok", "error"}

\* a send that looks at the socket only, not at the connected flag
send_message_unchecked(w, m, outcome) ==
    IF w.websocket = 0
    THEN Raise(w, "SwitchboardError")
    ELSE IF outcome = "error" \/ w.socks[w.websocket].st # "open"
    THEN Raise(w, "SwitchboardError")
    ELSE Emit(w, [ev |-> "send", sock |-> w.websocket, frame |-> to_dict(m)])

\* a send that treats a write failure as a lost connection
send_message_reporting(w, m, outcome) ==
    IF ~w.connected \/ w.websocket = 0
    THEN Raise(w, "ConnectionError")
    ELSE IF outcome = "error" \/ w.socks[w.websocket].st # "open"
    THEN Raise(attempt_reconnection(
                   notify_error_handlers([w EXCEPT !.connected = FALSE],
                                         Error("SwitchboardError", "Failed to send message", ""))),
               "SwitchboardError")
    ELSE Emit(w, [ev |-> "send", sock |-> w.websocket, frame |-> to_dict(m)])

\* send_message: ConnectionError before anything is tried when the client
\* is not connected or has no socket; whatever to_dict, json.dumps or
\* websocket.send raise (a socket that is closed raises ConnectionClosed)
\* becomes a SwitchboardError
send_message(w, m, outcome) ==
    IF ~w.connected \/ w.websocket = 0
    THEN Raise(w, "ConnectionError")
    ELSE IF outcome = "error" \/ w.socks[w.websocket].st # "open"
    THEN Raise(w, "SwitchboardError")
    ELSE Emit(w, [ev |-> "send", sock |-> w.websocket, frame |-> to_dict(m)])

Send(m, outcome) ==
    LET w == send_message(World, m, outcome)
    IN  /\ Commit([w EXCEPT !.exc = None],
                  Op("send", 0, [message |-> m, outcome |-> outcome], w.exc))
        /\ HandlersUnchanged

\* A caller that sends while connections are opened, dropped and closed.
NextSend ==
    \/ \E h \in Handlers : Registered < MaxHandlers /\ on_error(h)
    \/ \E sid \in SessionIds : Connect(sid, [kind |-> "ok", code |-> 0])
    \/ Disconnect
    \/ \E s \in SockIds, c \in {1000, 1006} : ServerClose(s, c)
    \/ \E t \in TaskIds : RecvClosed(t)
    \/ \E t \in TaskIds : TimerFire(t)
    \/ \E t \in TaskIds, o \in OpenOutcomes : TimerConnect(t, o)
    \/ \E m \in SendMessages, o \in SendOutcomes : Send(m, o)

SpecSend == Init /\ [][NextSend]_vars

(* ------------------------- handlers that suspend ----------------------- *)
\* the first handler at or after position k that suspends, 0 if none does
FirstSlow(hs, k) ==
    LET slow == {i \in k..Len(hs) : hs[i] \in SlowHandlers}
    IN  IF slow = {} THEN 0 ELSE Lowest(slow)

\* the handlers of positions k..n are called, in order
called(w, hs, m, k, n) ==
    [w EXCEPT !.trace = @ \o [i \in 1..(n - k + 1) |->
        [ev |-> "message_handler", h |-> hs[k + i - 1], m |-> m,
         raised |-> HandlerRaises(hs[k + i - 1])]]]

\* a loop that starts a task for a handler that suspends and goes on
run_from_detached(w, t, m, k) ==
    LET hs == IF m.type \in DOMAIN message_handlers THEN message_handlers[m.type] ELSE <<>>
        j == FirstSlow(hs, k)
        u == Lowest(FreeTaskIds(w))
    IN  IF w.tasks[t].kind = "handler"
        THEN [w EXCEPT !.tasks[t] = [@ EXCEPT !.st = "done"]]
        ELSE IF j = 0
        THEN next_read(called(w, hs, m, k, Len(hs)), t)
        ELSE IF FreeTaskIds(w) = {}
        THEN [w EXCEPT !.full = TRUE]
        ELSE next_read(
                 [called(w, hs, m, k, Len(hs)) EXCEPT
                     !.tasks[u] = [FreeTask EXCEPT !.kind = "handler", !.st = "handling",
                                                   !.sock = w.tasks[t].sock, !.msg = m,
                                                   !.pos = j]], t)

\* the for loop of _notify_message_handlers from position k on, and the
\* receive loop after it: the handlers are awaited one after the other; at
\* a handler that suspends the task waits for it (st handling), after the
\* last one the loop is back at the socket read
run_from(w, t, m, k) ==
    LET hs == IF m.type \in DOMAIN message_handlers THEN message_handlers[m.type] ELSE <<>>
        j == FirstSlow(hs, k)
    IN  IF j = 0
        THEN next_read(called(w, hs, m, k, Len(hs)), t)
        ELSE [called(w, hs, m, k, j) EXCEPT
                 !.tasks[t] = [@ EXCEPT !.st = "handling", !.msg = m, !.pos = j]]

\* one iteration of the receive loop for a message that is not a system
\* message, up to the next suspension
receive_frame_awaiting(w, t, f) ==
    LET m == from_dict(f)
        w1 == [w EXCEPT !.message_count = @ + 1,
                        !.decoded = IF t = w.receive_task THEN @ + 1 ELSE @]
    IN  run_from(Emit(w1, [ev |-> "notify_message", m |-> m]), t, m, 1)

RecvFrameAwaiting(t, f) ==
    /\ tasks[t].kind = "recv" /\ tasks[t].st = "reading"
    /\ socks[tasks[t].sock].st = "open"
    /\ CanDecode(f) /\ f.type # "system"
    /\ message_count < MaxMsgs /\ decoded < MaxMsgs
    /\ Commit(receive_frame_awaiting(World, t, f),
              Op("receive", t, [frame |-> f, sock |-> tasks[t].sock], None))
    /\ HandlersUnchanged

\* the handler the task waits for returns
HandlerReturn(t) ==
    /\ tasks[t].st = "handling"
    /\ Commit(run_from(Emit(World, [ev |-> "handler_return", m |-> tasks[t].msg,
                                    pos |-> tasks[t].pos]),
                       t, tasks[t].msg, tasks[t].pos + 1),
              Op("handler_return", t, [message |-> tasks[t].msg, sock |-> tasks[t].sock], None))
    /\ HandlersUnchanged

\* two frames that differ, and handlers that suspend among handlers that
\* do not
OrderFrames ==
    { Frame("request", "first", Mapping(Absent, Absent, Absent)),
      Frame("analytics", "second", Mapping(Absent, Absent, Absent)) }

NextOrder ==
    \/ \E y \in {"request", "analytics"}, h \in Handlers \cup SlowHandlers :
           Registered < MaxRegistered /\ on_message(y, h)
    \/ \E sid \in SessionIds : Connect(sid, [kind |-> "ok", code |-> 0])
    \/ Disconnect
    \/ \E s \in SockIds : ServerClose(s, 1000)
    \/ \E t \in TaskIds, f \in OrderFrames : RecvFrameAwaiting(t, f)
    \/ \E t \in TaskIds : HandlerReturn(t)
    \/ \E t \in TaskIds : RecvClosed(t)

SpecOrder == Init /\ [][NextOrder]_vars

(* ------------------------- encoding and decoding ----------------------- *)
\* Message objects a caller builds: every message type and a type that is
\* no member of MessageType, a context that is a text, empty or None, a
\* content that is a mapping or not
OutMessages ==
    [type : MessageType \cup {"bogus"},
     context : {"general", "question", "", None},
     content : {Mapping(Absent, Absent, Absent), Mapping("session_ended", "timeout", Absent),
                NotMapping}]

\* m.to_dict(); self.type.value raises for a type that is no MessageType
Encode(m) ==
    /\ op.name # "to_dict"
    /\ op' = Op("to_dict", 0, [message |-> m],
                IF m.type \in MessageType THEN None ELSE "AttributeError")
    /\ trace' = IF m.type \in MessageType
                THEN <<[ev |-> "to_dict", frame |-> to_dict(m)]>>
                ELSE <<>>
    /\ ClientUnchanged
    /\ UNCHANGED <<message_handlers, connection_handlers, error_handlers>>

\* Message.from_dict of the dictionary to_dict has returned
Decode ==
    /\ op.name = "to_dict" /\ op.raised = None
    /\ op' = Op("from_dict", 0, [message |-> op.input.message, frame |-> trace[1].frame],
                IF CanDecode(trace[1].frame) THEN None ELSE "KeyError")
    /\ trace' = IF CanDecode(trace[1].frame)
                THEN <<[ev |-> "from_dict", m |-> from_dict(trace[1].frame)]>>
                ELSE <<>>
    /\ ClientUnchanged
    /\ UNCHANGED <<message_handlers, connection_handlers, error_handlers>>

NextCodec ==
    \/ \E m \in OutMessages : Encode(m)
    \/ Decode

SpecCodec == Init /\ [][NextCodec]_vars

\* System messages of every event, the event in content.event, in the
\* context or in both, with a content that is a mapping or not.
SystemFrames ==
    { Frame("system", "session_ended", Mapping("other", Absent, Absent)),
      Frame("system", "session_ended", Mapping(None, Absent, Absent)),
      Frame("system", "session_ended", NotMapping),
      Frame("system", "general", Mapping("session_ended", "timeout", Absent)),
      Frame("system", "history_complete", Mapping(Absent, Absent, Absent)),
      Frame("system", "general", Mapping("history_complete", Absent, Absent)),
      Frame("system", "general", Mapping("other", Absent, Absent)),
      Frame("system", "", Mapping(Absent, Absent, Absent)),
      Frame("system", Absent, NotMapping),
      Frame("system", "general", Mapping("message_error", Absent, "boom")),
      Frame("system", "message_error", Mapping(Absent, Absent, Absent)),
      Frame("system", "message_error", NotMapping) }

NextSystem ==
    \/ \E h \in Handlers : Registered < MaxRegistered /\ on_message("system", h)
    \/ \E h \in Handlers : Registered < MaxRegistered /\ on_error(h)
    \/ \E sid \in SessionIds : Connect(sid, [kind |-> "ok", code |-> 0])
    \/ \E t \in TaskIds, f \in SystemFrames : RecvFrame(t, f)
    \/ \E t \in TaskIds, b \in BOOLEAN : SessionEndedTeardown(t, b)
    \/ \E t \in TaskIds : RecvClosed(t)

SpecSystem == Init /\ [][NextSystem]_vars

\* A session that the server ends, on a client whose connections drop and
\* are retried; nobody calls disconnect(), so that _shutdown is set by the
\* session_ended teardown only.
EndedFrames == {Frame("system", "general", Mapping("session_ended", "timeout", Absent))}

NextEnded ==
    \/ \E h \in Handlers : Registered < MaxHandlers /\ on_error(h)
    \/ \E sid \in SessionIds : Connect(sid, [kind |-> "ok", code |-> 0])
    \/ \E s \in SockIds : ServerClose(s, 1006)
    \/ \E t \in TaskIds, f \in EndedFrames : RecvFrame(t, f)
    \/ \E t \in TaskIds, b \in BOOLEAN : SessionEndedTeardown(t, b)
    \/ \E t \in TaskIds : RecvClosed(t)
    \/ \E t \in TaskIds : TimerFire(t)
    \/ \E t \in TaskIds, o \in OpenOutcomes : TimerConnect(t, o)

SpecEnded == Init /\ [][NextEnded]_vars

(* ------------------ frames that follow session_ended ------------------- *)
\* the socket buffers at most MaxQueued frames for a loop that is not reading
MaxQueued == 1

\* A frame arrives while the loop sleeps in the grace delay that follows a
\* session_ended message: the socket reads it in the background and keeps
\* it for the next read of the loop.
FrameArrives(t, f) ==
    /\ tasks[t].kind = "recv" /\ tasks[t].st = "grace"
    /\ socks[tasks[t].sock].st = "open"
    /\ Len(tasks[t].queued) < MaxQueued
    /\ Commit([World EXCEPT !.tasks[t].queued = Append(@, f)],
              Op("frame_arrives", t, [frame |-> f, sock |-> tasks[t].sock], None))
    /\ HandlersUnchanged

\* The loop, back at `async for` after the teardown, gets a frame the socket
\* had buffered before it was closed: one more iteration of the loop.
RecvBuffered(t) ==
    /\ tasks[t].kind = "recv" /\ tasks[t].st = "reading"
    /\ tasks[t].queued # <<>>
    /\ Commit(receive_frame([World EXCEPT !.tasks[t].queued = Tail(@)], t,
                            Head(tasks[t].queued)),
              Op("receive_buffered", t, [frame |-> Head(tasks[t].queued)], None))
    /\ HandlersUnchanged

AfterEndFrames ==
    { Frame("system", "general", Mapping("session_ended", "timeout", Absent)),
      Frame("request", "general", Mapping(Absent, Absent, Absent)) }

\* A server that ends the session and goes on sending; the application
\* calls connect() only while no task of the client is running.
NextAfterEnd ==
    \/ \E y \in HandledTypes, h \in Handlers : Registered < MaxRegistered /\ on_message(y, h)
    \/ \E sid \in SessionIds :
          /\ \A t \in TaskIds : ~Live(tasks, t)
          /\ Connect(sid, [kind |-> "ok", code |-> 0])
    \/ \E t \in TaskIds, f \in AfterEndFrames : RecvFrame(t, f)
    \/ \E t \in TaskIds, f \in AfterEndFrames : FrameArrives(t, f)
    \/ \E t \in TaskIds, b \in BOOLEAN : SessionEndedTeardown(t, b)
    \/ \E t \in TaskIds : RecvBuffered(t)
    \/ \E t \in TaskIds : RecvClosed(t)

SpecAfterEnd == Init /\ [][NextAfterEnd]_vars

(* ======================= the claims of the spec ======================== *)
\* what the step taken last did
Did(ev) == \E i \in DOMAIN trace : trace[i].ev = ev
NotifiedConnection(b) ==
    \E i \in DOMAIN trace : trace[i].ev = "notify_connection" /\ trace[i].connected = b
NotifiedError(kind) ==
    \E i \in DOMAIN trace : trace[i].ev = "notify_error" /\ trace[i].error.kind = kind
Rejections == {CLOSE_FORBIDDEN, CLOSE_NOT_FOUND}

\* C1: disconnect() called twice in succession on a connected client: the
\* second call is a no-op, it notifies no connection handler (the first call
\* gave the one notification with false) and no error handler.
C1_SecondDisconnectIsNoOp ==
    [][(/\ op.name = "disconnect" /\ Did("close") /\ NotifiedConnection(FALSE)
        /\ op'.name = "disconnect")
       => \A i \in DOMAIN trace' : trace'[i].ev \notin {"notify_connection", "notify_error"}]_vars

\* C2: the teardown that follows a session_ended system message, run by the
\* receive task itself, runs to completion: the socket is closed, then the
\* connection handlers get false, then the error handlers get the
\* SessionEnded error.
C2_SessionEndedTeardownCompletes ==
    op.name = "session_ended" =>
        /\ socks[op.input.sock].st # "open"
        /\ \E j, k \in DOMAIN trace :
              /\ j < k
              /\ trace[j].ev = "notify_connection" /\ trace[j].connected = FALSE
              /\ trace[k].ev = "notify_error" /\ trace[k].error.kind = "SessionEndedError"
              /\ \A i \in DOMAIN trace : trace[i].ev = "close" => i < j

\* C3: the handlers of type system get a session_ended message once, when
\* the receive loop reads it: the teardown that follows does not hand the
\* message to them again.
C3_SessionEndedDispatchedOnce ==
    op.name = "session_ended" =>
        \A i \in DOMAIN trace : trace[i].ev # "message_handler"

\* C4: the SessionEnded error handed to the error handlers carries the
\* reason of the message: content.reason, or "Unknown reason".
C4_SessionEndedCarriesReason ==
    op.name = "session_ended" =>
        \A i \in DOMAIN trace :
            (trace[i].ev = "notify_error" /\ trace[i].error.kind = "SessionEndedError")
            => trace[i].error.detail = reason_of(op.input.message)

\* C5: the retry that makes the attempt counter k is scheduled with a delay
\* of base * 2^(k-1), that is 1, 2, 4, 8, 16 for k = 1..5, and k never
\* passes the maximum; the counter is 0 on every connection that has been
\* opened, so that the retries after its drop count from 1; a reconnection
\* attempt that fails when the counter is at the maximum hands
\* ReconnectionFailed to the error handlers and schedules nothing.
BackoffTable == <<1, 2, 4, 8, 16>>

C5_BackoffLadder ==
    [][/\ \A i \in DOMAIN trace' :
              trace'[i].ev = "schedule" =>
                  /\ reconnect_attempts' = reconnect_attempts + 1
                  /\ reconnect_attempts' \in 1..max_reconnect_attempts
                  /\ trace'[i].delay = BackoffTable[reconnect_attempts']
                  /\ trace'[i].delay = reconnect_delay * 2 ^ (reconnect_attempts' - 1)
                  /\ tasks'[trace'[i].task] = TimerTask(trace'[i].delay)
       /\ (op'.name \in {"connect", "reconnect"} /\ Len(trace') > 0 /\ trace'[1].ev = "notify_connection")
          => reconnect_attempts' = 0 /\ connected'
       /\ (/\ op'.name = "reconnect" /\ op'.input.outcome.kind # "ok"
           /\ reconnect_attempts = max_reconnect_attempts)
          => /\ \E i \in DOMAIN trace' :
                    /\ trace'[i].ev = "notify_error"
                    /\ trace'[i].error.kind = "ReconnectionFailedError"
             /\ \A i \in DOMAIN trace' : trace'[i].ev # "schedule"]_vars

\* the fifth retry is scheduled with 16 seconds, and the attempt that
\* follows it has failed and was reported
C5_Witness ==
    /\ op.name = "reconnect" /\ op.input.outcome.kind # "ok"
    /\ reconnect_attempts = DEFAULT_MAX_RECONNECT_ATTEMPTS
    /\ NotifiedError("ReconnectionFailedError")
    /\ Did("error_handler")
    /\ ~shutdown

\* C6: an explicit connect() that the server rejects with the forbidden code
\* raises AuthenticationError to the caller and leaves the client not
\* connected, its attempt counter 0 and no reconnect timer pending.
C6_ForbiddenConnectIsTerminal ==
    (/\ op.name = "connect" /\ role # None
     /\ op.input.outcome = [kind |-> "closed", code |-> CLOSE_FORBIDDEN])
    => /\ op.raised = "AuthenticationError"
       /\ ~connected
       /\ reconnect_attempts = 0
       /\ ~Did("schedule")
       /\ \A t \in TaskIds : tasks[t].kind # "timer"

\* C7: a reconnection attempt of the backoff timer that the server rejects
\* with the forbidden or the not-found code is not retried: no timer is
\* scheduled, and the error handlers get the terminal error.
C7_RejectedReconnectNotRetried ==
    (/\ op.name = "reconnect" /\ op.input.outcome.kind = "closed"
     /\ op.input.outcome.code \in Rejections)
    => /\ ~Did("schedule")
       /\ NotifiedError(OpenError(op.input.outcome))

\* C8: the receive loop that finds its socket closed with the forbidden or
\* the not-found code schedules no reconnect timer.
C8_RejectionClosureNotRetried ==
    (op.name = "closed" /\ op.input.code \in Rejections) => ~Did("schedule")

\* C9: on a connection that a reconnection opened, message_count is 0 until
\* the receive loop of the connection decodes its first frame, and 1 once
\* it has.
C9_CountRestartsOnReconnect ==
    (established_by = "reconnect" /\ decoded <= 1) => message_count = decoded

\* C10: a frame that is not JSON, or has no type or an unknown one, goes to
\* the error handlers and changes nothing else: the loop is back at the
\* socket read, the socket is open, no timer is scheduled, the counters
\* and the connection are as before; and a well-formed frame that the loop
\* reads, then as before, is handed to the handlers of its type.
C10_BadFrameDoesNotStopLoop ==
    [][op'.name = "receive" =>
          IF ~CanDecode(op'.input.frame)
          THEN /\ \E i \in DOMAIN trace' :
                      /\ trace'[i].ev = "notify_error"
                      /\ trace'[i].error.kind = "SwitchboardError"
               /\ \A i \in DOMAIN trace' :
                      trace'[i].ev \in {"notify_error", "error_handler"}
               /\ Len(trace') = 1 + Len(error_handlers)
               /\ op'.task \in TaskIds
               /\ tasks'[op'.task].kind = "recv" /\ tasks'[op'.task].st = "reading"
               /\ socks'[tasks'[op'.task].sock].st = "open"
               /\ UNCHANGED <<websocket, current_session_id, connected, message_count,
                              reconnect_attempts, receive_task, reconnect_task, shutdown,
                              tasks, socks>>
          ELSE /\ op'.task \in TaskIds
               /\ tasks[op'.task].kind = "recv" /\ tasks[op'.task].st = "reading"
               /\ \E i \in DOMAIN trace' :
                      /\ trace'[i].ev = "notify_message"
                      /\ trace'[i].m = from_dict(op'.input.frame)
               /\ \A h \in Handlers :
                      (/\ op'.input.frame.type \in DOMAIN message_handlers
                       /\ \E k \in DOMAIN message_handlers[op'.input.frame.type] :
                              message_handlers[op'.input.frame.type][k] = h)
                      => \E i \in DOMAIN trace' :
                             /\ trace'[i].ev = "message_handler"
                             /\ trace'[i].h = h
                             /\ trace'[i].m = from_dict(op'.input.frame)]_vars

\* a frame of an unknown type has gone to a registered error handler, on a
\* connection that had decoded a frame before
C10_Witness ==
    /\ op.name = "receive" /\ op.input.frame.json /\ op.input.frame.type = "bogus"
    /\ Did("error_handler")
    /\ op.task = receive_task /\ decoded = 1 /\ message_count = 1
    /\ connected

\* the sockets that are open and the tasks that have not finished
OpenSockets == {s \in SockIds : socks[s].st = "open"}
ReceiveTasks == {t \in TaskIds : tasks[t].kind = "recv" /\ Live(tasks, t)}
ReconnectTimers == {t \in TaskIds : tasks[t].kind = "timer" /\ Live(tasks, t)}

\* C11: at every moment the client has at most one open socket and at most
\* one receive task that has not finished.
C11_OneSocketOneReceiveTask ==
    Cardinality(OpenSockets) <= 1 /\ Cardinality(ReceiveTasks) <= 1

\* C12: at every moment at most one reconnect timer has not finished.
C12_OneReconnectTimer == Cardinality(ReconnectTimers) <= 1

\* the handlers hs were called one after the other, in order, right after
\* the notification at position i of the step
HandlersRan(i, ev, hs) ==
    \A k \in 1..Len(hs) :
        /\ i + k <= Len(trace)
        /\ trace[i + k].ev = ev
        /\ trace[i + k].h = hs[k]
HandlerFailed ==
    \E i \in DOMAIN trace :
        /\ trace[i].ev \in {"message_handler", "connection_handler", "error_handler"}
        /\ trace[i].raised # None

\* C13: every notification calls all the handlers registered for it, in
\* order, whether or not one of them raises; a handler that raises makes
\* the step raise nothing, and the receive loop that called it is back at
\* the socket read.
C13_HandlerFailureIsContained ==
    /\ \A i \in DOMAIN trace :
          /\ trace[i].ev = "notify_message" =>
                 HandlersRan(i, "message_handler",
                     IF trace[i].m.type \in DOMAIN message_handlers
                     THEN message_handlers[trace[i].m.type] ELSE <<>>)
          /\ trace[i].ev = "notify_connection" =>
                 HandlersRan(i, "connection_handler", connection_handlers)
          /\ trace[i].ev = "notify_error" =>
                 HandlersRan(i, "error_handler", error_handlers)
    /\ HandlerFailed =>
          /\ op.raised = None
          /\ op.name = "receive" =>
                 /\ op.task \in TaskIds
                 /\ tasks[op.task].kind = "recv" /\ tasks[op.task].st = "reading"
                 /\ socks[tasks[op.task].sock].st = "open"
          /\ op.name = "connect" => connected /\ receive_task \in ReceiveTasks

\* a message handler has raised and the handler registered after it was called
C13_Witness ==
    /\ op.name = "receive"
    /\ Len(trace) = 3
    /\ trace[2].ev = "message_handler" /\ trace[2].raised = "Exception"
    /\ trace[3].ev = "message_handler" /\ trace[3].h = "h1" /\ trace[3].raised = None

\* C14: a message handler or a connection handler that raises is reported:
\* the error handlers are notified after it, in the same step.
C14_HandlerFailureReported ==
    \A i \in DOMAIN trace :
        (trace[i].ev \in {"message_handler", "connection_handler"} /\ trace[i].raised # None)
        => \E j \in DOMAIN trace : j > i /\ trace[j].ev = "notify_error"

\* C15: when disconnect() has returned the shutdown flag is set, no
\* reconnect timer and no receive task is left, no socket is open,
\* connected is false and the connection handlers were notified with false.
C15_DisconnectLeavesNothingRunning ==
    op.name = "disconnect" =>
        /\ shutdown
        /\ ReconnectTimers = {}
        /\ ReceiveTasks = {}
        /\ OpenSockets = {}
        /\ ~connected
        /\ NotifiedConnection(FALSE)

\* C16: once disconnect() has completed, a step that is not a connect()
\* of the caller neither completes a connection attempt nor makes
\* connected true nor calls a message handler.
C16_DisconnectIsTerminal ==
    [][(shutdown /\ current_session_id = None /\ op'.name # "connect")
       => /\ ~connected'
          /\ op'.name # "reconnect"
          /\ \A i \in DOMAIN trace' : trace'[i].ev # "message_handler"]_vars

\* C17: the step that hands ReconnectionFailed to the error handlers leaves
\* no reconnect timer pending.
C17_ReconnectionFailedIsTerminal ==
    NotifiedError("ReconnectionFailedError") => ReconnectTimers = {}

\* C18: a step that changes connected notifies the connection handlers
\* with the new value.
C18_EveryFlipNotified ==
    [][connected' # connected
       => \E i \in DOMAIN trace' :
              trace'[i].ev = "notify_connection" /\ trace'[i].connected = connected']_vars

\* C19: when no receive task runs and no reconnect timer is pending,
\* connected is false.
C19_StoppedMeansNotConnected ==
    (ReceiveTasks = {} /\ ReconnectTimers = {}) => ~connected

\* C20: a receive loop that finds its socket closed, with any code, while
\* no shutdown was requested, schedules a reconnect timer or hands
\* ReconnectionFailed to the error handlers.
C20_ClosureHandsOffToReconnection ==
    (op.name = "closed" /\ ~shutdown)
    => Did("schedule") \/ NotifiedError("ReconnectionFailedError")

\* C21: disconnect() awaited by a message handler, on the receive task it
\* cancels, completes its whole teardown: it returns to the handler with
\* the socket closed, connected = false and the connection handlers
\* notified with false.
C21_DisconnectInHandlerCompletes ==
    (/\ op.name = "receive"
     /\ \E i \in DOMAIN trace :
           trace[i].ev = "message_handler" /\ trace[i].h \in DisconnectingHandlers)
    => /\ \A i \in DOMAIN trace :
             (trace[i].ev = "message_handler" /\ trace[i].h \in DisconnectingHandlers)
             => trace[i].raised = None
       /\ ~connected
       /\ websocket # 0 => socks[websocket].st # "open"
       /\ NotifiedConnection(FALSE)

\* the client's fields, tasks and sockets are what they were
ClientStateUnchanged ==
    UNCHANGED <<role, max_reconnect_attempts, websocket, current_session_id, connected,
                message_count, reconnect_attempts, message_handlers, connection_handlers,
                error_handlers, receive_task, reconnect_task, shutdown, tasks, socks>>

\* C22: send() on a client whose connected flag is false fails with an
\* error returned to the caller, writes nothing to any socket, invokes no
\* error handler and changes no client state.
C22_SendWhenNotConnectedFails ==
    [][(op'.name = "send" /\ ~connected)
       => /\ op'.raised # None
          /\ trace' = <<>>
          /\ ClientStateUnchanged]_vars

\* a send refused although the client holds an open socket
C22_Witness ==
    /\ op.name = "send" /\ op.raised = "ConnectionError" /\ ~connected
    /\ websocket # 0 /\ socks[websocket].st = "open"

\* C23: a write failure inside send() is raised to the caller of send()
\* only: no error handler is invoked for it, it changes neither the
\* connected flag nor the attempt counter and starts no reconnection.
C23_WriteFailureGoesToCallerOnly ==
    [][(op'.name = "send" /\ connected /\ websocket # 0 /\ op'.raised # None)
       => /\ op'.raised = "SwitchboardError"
          /\ \A i \in DOMAIN trace' : trace'[i].ev \notin {"notify_error", "error_handler"}
          /\ connected' = connected
          /\ reconnect_attempts' = reconnect_attempts
          /\ reconnect_task' = reconnect_task /\ tasks' = tasks]_vars

\* a write that failed on a socket that is open, with an error handler
\* registered
C23_Witness ==
    /\ op.name = "send" /\ op.raised = "SwitchboardError" /\ op.input.outcome = "error"
    /\ connected /\ websocket # 0 /\ socks[websocket].st = "open"
    /\ Len(error_handlers) > 0

\* C24: a failure to open the socket during an explicit connect() is
\* raised to the caller and not delivered to the error handlers; after it
\* the client is not connected, has no receive task, and no reconnect
\* timer is scheduled.
C24_FailedConnectLeavesNothing ==
    (op.name = "connect" /\ role # None /\ op.input.outcome.kind # "ok")
    => /\ op.raised # None
       /\ ~Did("notify_error")
       /\ ~connected
       /\ \A t \in TaskIds : ~Live(tasks, t)

\* C25: on one connection the handlers get the messages in the order the
\* frames are read, and dispatch is sequential: no handler is invoked for
\* a frame while a handler invoked for an earlier frame of that connection
\* has not returned.
C25_DispatchIsSequential ==
    [][/\ (op'.name = "receive" /\ \E i \in DOMAIN trace' : trace'[i].ev = "message_handler")
          => /\ \A u \in TaskIds :
                   ~(Live(tasks, u) /\ tasks[u].st = "handling"
                     /\ tasks[u].sock = op'.input.sock)
             /\ \A i \in DOMAIN trace' :
                   trace'[i].ev = "message_handler" => trace'[i].m = from_dict(op'.input.frame)
       /\ op'.name = "handler_return"
          => \A i \in DOMAIN trace' :
                 trace'[i].ev = "message_handler" => trace'[i].m = op'.input.message]_vars

\* the second frame of a connection is read after a handler that had
\* suspended for the first one returned
C25_Witness ==
    /\ op.name = "receive" /\ decoded = 2 /\ op.input.frame.context = "second"
    /\ Did("message_handler")
    /\ "request" \in DOMAIN message_handlers
    /\ \E i \in DOMAIN message_handlers["request"] :
          message_handlers["request"][i] \in SlowHandlers

\* C26: for every message m with a valid type, decoding the encoding of m
\* yields a message with the same type, context and content as m.
C26_DecodeOfEncodeIsSame ==
    (op.name = "from_dict" /\ op.input.message.type \in MessageType)
    => /\ op.raised = None
       /\ Len(trace) = 1
       /\ trace[1].m.type = op.input.message.type
       /\ trace[1].m.context = op.input.message.context
       /\ trace[1].m.content = op.input.message.content

\* a system message with an empty context and a mapping as content went
\* through both conversions
C26_Witness ==
    /\ op.name = "from_dict" /\ op.raised = None
    /\ op.input.message.type = "system" /\ op.input.message.context = ""
    /\ op.input.message.content.dict
    /\ Did("from_dict")

\* the system message a receive step has decoded, and its event tag as the
\* specification words it
ReceivedSystem(o) ==
    o.name = "receive" /\ CanDecode(o.input.frame) /\ o.input.frame.type = "system"
TagOf(f) ==
    IF f.content.dict /\ f.content.event # Absent THEN f.content.event
    ELSE IF f.context = Absent THEN "general" ELSE f.context

\* C27: the event tag of a system message is content.event whenever
\* content is a mapping that contains the key event, and the context field
\* otherwise: the teardown starts exactly for the messages whose tag so
\* defined is session_ended.
C27_EventTagPrefersContentEvent ==
    ReceivedSystem(op)
    => /\ op.task \in TaskIds
       /\ tasks[op.task].st = "grace" <=> TagOf(op.input.frame) = "session_ended"

\* context session_ended with another content.event: no teardown
C27_Witness ==
    /\ ReceivedSystem(op)
    /\ op.input.frame.context = "session_ended" /\ op.input.frame.content.event = "other"
    /\ tasks[op.task].st = "reading"

\* the step dispatched message m to the handlers hs, in order
Dispatched(tr, m, hs) ==
    \E i \in DOMAIN tr :
        /\ tr[i].ev = "notify_message" /\ tr[i].m = m
        /\ i + Len(hs) <= Len(tr)
        /\ \A j \in 1..Len(hs) :
              /\ tr[i + j].ev = "message_handler"
              /\ tr[i + j].h = hs[j] /\ tr[i + j].m = m
SystemHandlers ==
    IF "system" \in DOMAIN message_handlers THEN message_handlers["system"] ELSE <<>>

\* C28: for every system message whose event is message_error, whether or
\* not its content is a mapping, the error handlers receive an error with
\* content.message (or a default text), the connection is not torn down,
\* and the message is afterwards dispatched to the handlers registered for
\* type system.
C28_MessageErrorReportedAndDispatched ==
    (ReceivedSystem(op) /\ TagOf(op.input.frame) = "message_error")
    => /\ \E i \in DOMAIN trace :
             /\ trace[i].ev = "notify_error"
             /\ trace[i].error.message = "Server message error"
             /\ trace[i].error.detail =
                    IF op.input.frame.content.dict /\ op.input.frame.content.message # Absent
                    THEN op.input.frame.content.message
                    ELSE "Unknown message error"
       /\ tasks[op.task].st = "reading" /\ ~Did("close")
       /\ Dispatched(trace, from_dict(op.input.frame), SystemHandlers)

\* C29: handling a system message whose event is history_complete, or any
\* unrecognized event value, changes no connection state (connected flag,
\* socket, shutdown flag, attempt counter, pending timer), delivers no
\* error, and the message is dispatched to the system handlers like any
\* other message.
C29_OtherEventsOnlyDispatched ==
    [][(ReceivedSystem(op') /\ TagOf(op'.input.frame) \notin {"session_ended", "message_error"})
       => /\ UNCHANGED <<connected, websocket, current_session_id, shutdown,
                         reconnect_attempts, receive_task, reconnect_task, tasks, socks>>
          /\ \A i \in DOMAIN trace' : trace'[i].ev \notin {"notify_error", "error_handler"}
          /\ Dispatched(trace', from_dict(op'.input.frame), SystemHandlers)
          /\ Len(trace') = 1 + Len(SystemHandlers)]_vars

\* an event nobody knows, with a system handler and an error handler
\* registered
C29_Witness ==
    /\ ReceivedSystem(op) /\ op.input.frame.content.event = "other"
    /\ op.input.frame.context = "general"
    /\ Len(SystemHandlers) > 0 /\ Len(error_handlers) > 0
    /\ Did("message_handler")

\* the notification at position i of tr called the handlers hs and no
\* other: one call each, in the order of hs
CalledExactly(tr, i, ev, hs) ==
    /\ i + Len(hs) <= Len(tr)
    /\ \A k \in 1..Len(hs) : tr[i + k].ev = ev /\ tr[i + k].h = hs[k]
    /\ i + Len(hs) < Len(tr) => tr[i + Len(hs) + 1].ev # ev
ListOf(table, y) == IF y \in DOMAIN table THEN table[y] ELSE <<>>
HandlersOf(y) == ListOf(message_handlers, y)

\* C30: a registration puts the handler at the end of the list of its key,
\* also when it is in the list already, and leaves the other lists alone;
\* every notification calls the handlers of its key one after the other in
\* that order, each as many times as it is in the list.
C30_CalledInRegistrationOrder ==
    [][/\ op'.name = "on_message"
          => /\ ListOf(message_handlers', op'.input.message_type)
                    = Append(HandlersOf(op'.input.message_type), op'.input.handler)
             /\ \A y \in MessageType \ {op'.input.message_type} :
                    ListOf(message_handlers', y) = HandlersOf(y)
             /\ UNCHANGED <<connection_handlers, error_handlers>>
       /\ op'.name = "on_connection"
          => /\ connection_handlers' = Append(connection_handlers, op'.input.handler)
             /\ UNCHANGED <<message_handlers, error_handlers>>
       /\ op'.name = "on_error"
          => /\ error_handlers' = Append(error_handlers, op'.input.handler)
             /\ UNCHANGED <<message_handlers, connection_handlers>>
       /\ \A i \in DOMAIN trace' :
             /\ trace'[i].ev = "notify_message"
                => CalledExactly(trace', i, "message_handler", HandlersOf(trace'[i].m.type))
             /\ trace'[i].ev = "notify_connection"
                => CalledExactly(trace', i, "connection_handler", connection_handlers)
             /\ trace'[i].ev = "notify_error"
                => CalledExactly(trace', i, "error_handler", error_handlers)]_vars

\* the same handler registered twice for request messages, called twice
\* for one message
C30_Witness ==
    /\ op.name = "receive" /\ CanDecode(op.input.frame)
    /\ HandlersOf("request") = <<"h1", "h1">>
    /\ Len(trace) = 3
    /\ trace[2].ev = "message_handler" /\ trace[2].h = "h1"
    /\ trace[3].ev = "message_handler" /\ trace[3].h = "h1"

\* the message handler calls of a step
HandlerCalls(tr) == {i \in DOMAIN tr : tr[i].ev = "message_handler"}

\* C31: every successfully decoded inbound frame that is not a
\* session_ended system message is delivered exactly once to each handler
\* registered for its type and to no handler registered for another type.
C31_DeliveredOnceToItsHandlers ==
    (/\ op.name = "receive" /\ CanDecode(op.input.frame)
     /\ ~(op.input.frame.type = "system" /\ TagOf(op.input.frame) = "session_ended"))
    => /\ Dispatched(trace, from_dict(op.input.frame), HandlersOf(op.input.frame.type))
       /\ Cardinality(HandlerCalls(trace)) = Len(HandlersOf(op.input.frame.type))

\* the step is the end of the receive loop of the latest connection, which
\* found its socket closed
LatestConnectionDropped ==
    /\ op'.name = "closed"
    /\ receive_task \in TaskIds /\ Live(tasks, receive_task)
    /\ receive_task' = DoneTask

\* C32: every successful connection, initial or automatic, sets the
\* attempt counter to 0, so that the retry scheduled when that connection
\* drops is the first one: its delay is the base delay, and the client has
\* max_reconnect_attempts retries again.
C32_SuccessRestartsTheLadder ==
    [][/\ (/\ op'.name \in {"connect", "reconnect"}
           /\ \E i \in DOMAIN trace' :
                  trace'[i].ev = "notify_connection" /\ trace'[i].connected)
          => reconnect_attempts' = 0
       /\ LatestConnectionDropped
          => \A i \in DOMAIN trace' :
                 trace'[i].ev = "schedule"
                 => trace'[i].delay = reconnect_delay /\ reconnect_attempts' = 1]_vars

\* C33: a connection handler called with true finds the client connected,
\* its socket open, the message and attempt counters at 0 and the receive
\* loop started; a connection handler called with false finds connected
\* false.
C33_HandlersSeeTheNewState ==
    \A i \in DOMAIN trace :
        trace[i].ev = "connection_handler"
        => IF trace[i].connected
           THEN /\ trace[i].seen.connected /\ trace[i].seen.socket_open
                /\ trace[i].seen.receiving
                /\ trace[i].seen.message_count = 0 /\ trace[i].seen.reconnect_attempts = 0
           ELSE ~trace[i].seen.connected

\* a connection handler was called with true by a reconnection that
\* followed a retry
C33_Witness ==
    /\ op.name = "reconnect" /\ op.input.outcome.kind = "ok"
    /\ \E i \in DOMAIN trace :
          trace[i].ev = "connection_handler" /\ trace[i].connected /\ trace[i].seen.connected

\* C34: a failure raised by an error handler is swallowed: the step that
\* notified raises nothing for it, no error-handler notification follows
\* it, and the error handlers after the failing one are each called once.
C34_ErrorHandlerFailureSwallowed ==
    \A i \in DOMAIN trace :
        (trace[i].ev = "error_handler" /\ trace[i].raised # None)
        => /\ op.raised = None
           /\ \A j \in DOMAIN trace : j > i => trace[j].ev # "notify_error"
           /\ \E n \in 1..i :
                 /\ trace[n].ev = "notify_error"
                 /\ CalledExactly(trace, n, "error_handler", error_handlers)
                 /\ i <= n + Len(error_handlers)

\* the first of two error handlers raised for a frame that is not JSON, and
\* the second one was called
C34_Witness ==
    /\ op.name = "receive" /\ ~op.input.frame.json
    /\ error_handlers = <<"hbad", "h1">>
    /\ Len(trace) = 3
    /\ trace[2].ev = "error_handler" /\ trace[2].raised = "Exception"
    /\ trace[3].ev = "error_handler" /\ trace[3].h = "h1"

\* C35: once a session_ended system message has been processed (the
\* teardown has set _shutdown), and until the caller connects again, no
\* step schedules a reconnect timer, starts a connection attempt or hands
\* ReconnectionFailed to the error handlers.
C35_SessionEndedStopsReconnection ==
    [][(shutdown /\ op'.name # "connect")
       => /\ \A i \in DOMAIN trace' : trace'[i].ev # "schedule"
          /\ \A t \in TaskIds : tasks'[t].st = "connecting" => tasks[t].st = "connecting"
          /\ \A i \in DOMAIN trace' :
                trace'[i].ev = "notify_error"
                => trace'[i].error.kind # "ReconnectionFailedError"]_vars

\* the reconnect timers a step scheduled, and whether it opened a connection
Scheduled(tr) == Cardinality({i \in DOMAIN tr : tr[i].ev = "schedule"})
Opened(tr) == \E i \in DOMAIN tr : tr[i].ev = "notify_connection" /\ tr[i].connected

\* C36: reconnect_attempts stays within 0..max_reconnect_attempts; it
\* counts the reconnect timers scheduled since the last successful
\* connection (a step adds to it what it scheduled, and only a successful
\* open takes it back to 0), so at most max_reconnect_attempts timers are
\* scheduled between two successful connections.
C36_AttemptsWithinLimit ==
    [][/\ reconnect_attempts' \in 0..max_reconnect_attempts
       /\ IF Opened(trace')
          THEN reconnect_attempts' = 0 /\ Scheduled(trace') = 0
          ELSE reconnect_attempts' = reconnect_attempts + Scheduled(trace')]_vars

\* the last retry the limit allows has been scheduled
C36_Witness ==
    /\ reconnect_attempts = max_reconnect_attempts
    /\ op.name = "reconnect" /\ Did("schedule")

\* C37: message_count equals the number of frames the receive loop of the
\* current connection has decoded since the connection was established; a
\* frame that fails to decode leaves it unchanged, and a frame whose
\* handlers or system-message handling fail is still counted.
C37_CountIsFramesDecoded ==
    [][/\ Live(tasks', receive_task') => message_count' = decoded'
       /\ (op'.name = "receive" /\ ~CanDecode(op'.input.frame))
          => message_count' = message_count
       /\ (op'.name = "receive" /\ CanDecode(op'.input.frame))
          => message_count' = message_count + 1]_vars

\* C38: a frame that arrived on a connection after a session_ended system
\* message is not dispatched to a message handler, and message_count is
\* not incremented for it.
C38_NothingAfterSessionEnded ==
    [][op'.name = "receive_buffered"
       => /\ message_count' = message_count
          /\ \A i \in DOMAIN trace' : trace'[i].ev # "message_handler"]_vars

\* the reconnect timers that wait for their delay to elapse
PendingTimers == {t \in ReconnectTimers : tasks[t].st = "sleeping"}

\* C39: whenever a reconnect timer is pending, connected is false: no state
\* is reachable in which the client is connected and a reconnect timer is
\* still waiting to fire.
C39_NotConnectedDuringBackoff == PendingTimers # {} => ~connected

\* C40: ReconnectionFailed is delivered to the error handlers only when the
\* attempt counter has reached max_reconnect_attempts, and never because
\* of, or after, an explicit shutdown (disconnect() or the session_ended
\* teardown).
C40_FailedOnlyAtTheLimit ==
    [][(\E i \in DOMAIN trace' :
            /\ trace'[i].ev = "notify_error"
            /\ trace'[i].error.kind = "ReconnectionFailedError")
       => /\ reconnect_attempts' >= max_reconnect_attempts
          /\ ~shutdown']_vars

====
